---------------------------- MODULE Spec2Model ----------------------------
(***************************************************************************)
(* A model of the bksy_twits bot (src/utils.py, src/main.py):              *)
(*   - the screenshot classifier TweetCompiler.is_probably_their_*_post,   *)
(*   - the fuzzy deduplicator dedupe_combined_tweets_list,                 *)
(*   - the corpus assembler create_combined_corpus,                        *)
(*   - the generate/decide/post loop of main,                              *)
(*   - the paging loop TweetCompiler._get_tweets_list_from_api_call.        *)
(* Python strings are TLA+ strings; a Python list is a sequence; a dict is *)
(* a function whose DOMAIN is the set of its keys.  List indexes are kept  *)
(* 0-based as in the source: the fragment with Python index i is           *)
(* extracted_image_texts[i + 1].                                           *)
(***************************************************************************)
EXTENDS Integers, Sequences, FiniteSets, TLC

VARIABLES
    pc,                           \* position in the code being executed
    \* ---- TweetCompiler.is_probably_their_platform_post ----
    compiler,                     \* the TweetCompiler subclass attributes (self)
    entry,                        \* which method the caller entered through
    extracted_image_texts,        \* argument: the OCR fragments
    platform_generics,            \* argument: the characteristic catalog
    probability_threshold,        \* argument: <<numerator, denominator>>
    word_group_positions,         \* local dict
    regex_characteristics_found,  \* local dict
    index,                        \* enumerate() position of the fragment loop
    probability_points,           \* local
    total_points,                 \* local
    result,                       \* the value returned (or the error raised)
    \* ---- dedupe_combined_tweets_list ----
    fuzz_ratio,                   \* fuzz.ratio as a table: fuzz_ratio[a][b]
    combined_tweets_list,         \* argument
    deduped_tweets_list,          \* returned list
    deduped_again,                \* the function applied to its own output
    reordered_tweets_list,        \* the same bodies in another order
    deduped_reordered,            \* the function applied to the reordering
    \* ---- create_combined_corpus and main ----
    full_tweets_list,             \* main's list, the very object the assembler mutates
    villain_quotes_list,          \* the quote sample of this pass
    num_tweets,                   \* local of create_combined_corpus
    seen_neighbor_indices,        \* local
    there_just_isnt_enough,       \* local: redraws made so far in this call
    index_to_insert_at,           \* local
    quotes_inserted,              \* how far the for loop over the quotes has come
    corpus,                       \* the string returned
    exception,                    \* the exception that ended the call, if any
    sentence,                     \* main: make_sentence's result
    decision,                     \* main: what the user typed
    posted,                       \* main: the text handed to send_post
    passes,                       \* main: passes of the while loop begun
    \* ---- history, for stating properties; no action reads these ----
    tweets_at_call,               \* full_tweets_list when the assembler was entered
    quote_redraws,                \* redraws made for the quote being placed
    accepted_indices,             \* the indexes accepted so far in this call
    \* ---- TweetCompiler._get_tweets_list_from_api_call ----
    max_pages,                    \* self.max_pages
    response,                     \* the latest value returned by getter_func
    items,                        \* local: what the for loop iterates
    post_attr,                    \* local
    cursor_in_params,             \* local
    getter_kwargs,                \* where the cursor of the next fetch is put
    tweets_list,                  \* local, and the value returned
    pages_seen,                   \* local
    \* ---- history of the paging loop; no action reads these ----
    fetches,                      \* calls of getter_func made so far
    pages_processed               \* runs of the for loop over items so far

classifierVars == <<compiler, entry, extracted_image_texts, platform_generics,
                    probability_threshold, word_group_positions,
                    regex_characteristics_found, index, probability_points,
                    total_points, result>>

dedupeVars == <<fuzz_ratio, combined_tweets_list, deduped_tweets_list,
                deduped_again, reordered_tweets_list, deduped_reordered>>

corpusVars == <<full_tweets_list, villain_quotes_list, num_tweets,
                seen_neighbor_indices, there_just_isnt_enough,
                index_to_insert_at, quotes_inserted, corpus, exception,
                tweets_at_call, quote_redraws, accepted_indices>>

mainVars == <<sentence, decision, posted, passes>>

feedVars == <<max_pages, response, items, post_attr, cursor_in_params,
              getter_kwargs, tweets_list, pages_seen, fetches,
              pages_processed>>

\* What the classifier leaves alone.
notClassifierVars == <<dedupeVars, corpusVars, mainVars, feedVars>>

\* What the deduplicator leaves alone.
notDedupeVars == <<classifierVars, corpusVars, mainVars, feedVars>>

\* What create_combined_corpus leaves alone.
notCorpusVars == <<classifierVars, dedupeVars, mainVars, feedVars>>

vars == <<pc, classifierVars, dedupeVars, corpusVars, mainVars, feedVars>>

(***************************************************************************)
(* Python values                                                           *)
(***************************************************************************)
\* None and the empty string are both falsy; every test the code makes on an
\* Optional[str] is a truthiness test, so one falsy value stands for both.
None == ""

Truthy(s) == s # None

EmptyDict == [k \in {} |-> 0]

Min(S) == CHOOSE m \in S : \A n \in S : m <= n

(***************************************************************************)
(* Strings: str.strip and re.match for the catalog's patterns              *)
(***************************************************************************)
CharAt(s, i) == SubSeq(s, i, i)

IsSpace(c) == c \in {" ", "\t", "\n"}

RECURSIVE LStrip(_)
LStrip(s) ==
    IF Len(s) > 0 /\ IsSpace(CharAt(s, 1))
    THEN LStrip(SubSeq(s, 2, Len(s)))
    ELSE s

RECURSIVE RStrip(_)
RStrip(s) ==
    IF Len(s) > 0 /\ IsSpace(CharAt(s, Len(s)))
    THEN RStrip(SubSeq(s, 1, Len(s) - 1))
    ELSE s

Strip(s) == RStrip(LStrip(s))

EndsWith(s, suffix) ==
    /\ Len(s) >= Len(suffix)
    /\ SubSeq(s, Len(s) - Len(suffix) + 1, Len(s)) = suffix

NoNewline(s) == \A i \in 1..Len(s) : CharAt(s, i) # "\n"

\* Every pattern of the two catalogs has the shape ".* <alternatives>$": any
\* run of non-newline characters, a space, and one of a few literal endings.
RegexEndings(regex) ==
    CASE regex = ".* (r|R)epl(y|ies)$" ->
            {" reply", " replies", " Reply", " Replies"}
      [] regex = ".* ReTruths?$"  -> {" ReTruth", " ReTruths"}
      [] regex = ".* (l|L)ikes?$" -> {" like", " likes", " Like", " Likes"}
      [] regex = ".* Reposts?$"   -> {" Repost", " Reposts"}
      [] regex = ".* Quotes?$"    -> {" Quote", " Quotes"}
      [] regex = ".* Likes?$"     -> {" Like", " Likes"}
      [] regex = ".* Bookmarks?$" -> {" Bookmark", " Bookmarks"}

\* re.match(regex, s): anchored at the start, "." excludes the newline, "$"
\* is the end of the (already stripped) string.
ReMatch(regex, s) ==
    \E ending \in RegexEndings(regex) :
        /\ EndsWith(s, ending)
        /\ NoNewline(SubSeq(s, 1, Len(s) - Len(ending)))

(***************************************************************************)
(* The characteristic catalogs                                             *)
(***************************************************************************)
REPLIES == "replies"
RETWEETS == "retweets"
QUOTES == "quotes"
BOOKMARKS == "bookmarks"
LIKES == "likes"

ExpectedPostCharacteristicInfo(regex, position_threshold, from_end) ==
    [regex |-> regex, position_threshold |-> position_threshold,
     from_end |-> from_end]

\* A dict literal: later pairs with an equal key replace earlier ones.
RECURSIVE DictOf(_)
DictOf(pairs) ==
    IF pairs = <<>> THEN EmptyDict
    ELSE LET rest == DictOf(SubSeq(pairs, 1, Len(pairs) - 1))
             last == pairs[Len(pairs)]
         IN  [k \in DOMAIN rest \cup {last[1]} |->
                 IF k = last[1] THEN last[2] ELSE rest[k]]

\* The class attributes a TweetCompiler subclass sets.
TweetCompilerBase ==
    [nickname |-> "bot", position_threshold |-> 5,
     twix_user_full_name |-> None, twix_user_handle |-> None,
     untruth_social_user_full_name |-> None,
     untruth_social_user_handle |-> None]

TrumpTweetCompiler ==
    [TweetCompilerBase EXCEPT
        !.nickname = "tRumP bot",
        !.twix_user_full_name = "Donald J. Trump",
        !.twix_user_handle = "@realDonaldTrump",
        !.untruth_social_user_full_name = "Donald J. Trump",
        !.untruth_social_user_handle = "@realDonaldTrump"]

MuskTweetCompiler ==
    [TweetCompilerBase EXCEPT
        !.nickname = "mUsK bot",
        !.twix_user_full_name = "Elon Musk",
        !.twix_user_handle = "@elonmusk"]

\* A profile with a handle and no full name: half configured.
HandleOnlyCompiler ==
    [TweetCompilerBase EXCEPT
        !.twix_user_handle = "@elonmusk",
        !.untruth_social_user_handle = "@realDonaldTrump"]

Compilers == {TweetCompilerBase, TrumpTweetCompiler, MuskTweetCompiler,
              HandleOnlyCompiler}

get_untruth_social_generics(self) ==
    IF \/ ~Truthy(self.untruth_social_user_full_name)
       \/ ~Truthy(self.untruth_social_user_handle)
    THEN EmptyDict
    ELSE DictOf(<<
        <<"Truth Details",
          ExpectedPostCharacteristicInfo(None, self.position_threshold, FALSE)>>,
        <<REPLIES,
          ExpectedPostCharacteristicInfo(".* (r|R)epl(y|ies)$",
                                         self.position_threshold + 1, FALSE)>>,
        <<self.untruth_social_user_full_name,
          ExpectedPostCharacteristicInfo(None, self.position_threshold + 2, FALSE)>>,
        <<self.untruth_social_user_handle,
          ExpectedPostCharacteristicInfo(None, self.position_threshold + 3, FALSE)>>,
        <<RETWEETS,
          ExpectedPostCharacteristicInfo(".* ReTruths?$",
                                         self.position_threshold + 1, TRUE)>>,
        <<LIKES,
          ExpectedPostCharacteristicInfo(".* (l|L)ikes?$",
                                         self.position_threshold, TRUE)>> >>)

get_twix_generics(self) ==
    IF ~Truthy(self.twix_user_full_name) \/ ~Truthy(self.twix_user_handle)
    THEN EmptyDict
    ELSE DictOf(<<
        <<self.twix_user_full_name,
          ExpectedPostCharacteristicInfo(None, self.position_threshold, FALSE)>>,
        <<self.twix_user_handle,
          ExpectedPostCharacteristicInfo(None, self.position_threshold + 1, FALSE)>>,
        <<RETWEETS,
          ExpectedPostCharacteristicInfo(".* Reposts?$",
                                         self.position_threshold + 3, TRUE)>>,
        <<QUOTES,
          ExpectedPostCharacteristicInfo(".* Quotes?$",
                                         self.position_threshold + 2, TRUE)>>,
        <<LIKES,
          ExpectedPostCharacteristicInfo(".* Likes?$",
                                         self.position_threshold + 1, TRUE)>>,
        <<BOOKMARKS,
          ExpectedPostCharacteristicInfo(".* Bookmarks?$",
                                         self.position_threshold, TRUE)>> >>)


(***************************************************************************)
(* TweetCompiler._within_n_positions and is_probably_their_platform_post   *)
(***************************************************************************)
\* The float default 0.25 as a fraction.  The thresholds used here have small
\* denominators, so points / total >= threshold under IEEE division decides
\* as the exact comparison points * den >= num * total does.
post_characteristics_probability_threshold == <<1, 4>>

DictPut(d, k, v) == [x \in DOMAIN d \cup {k} |-> IF x = k THEN v ELSE d[x]]

\* A variant that measures every landmark from the front of the list.
WithinNPositionsFromFront(word_group, word_group_to_index, n, from_end) ==
    /\ word_group \in DOMAIN word_group_to_index
    /\ word_group_to_index[word_group] < n

_within_n_positions(word_group, word_group_to_index, n, from_end) ==
    IF word_group \notin DOMAIN word_group_to_index THEN FALSE
    ELSE IF ~from_end THEN word_group_to_index[word_group] < n
    ELSE Cardinality(DOMAIN word_group_to_index)
             - word_group_to_index[word_group] <= n

\* Lines 188-190: one "found" flag per characteristic that has a regex.
InitialRegexFound(generics) ==
    [name \in {n \in DOMAIN generics : Truthy(generics[n].regex)} |-> FALSE]

\* A variant without the "found" flag: every matching fragment claims.
RegexClaimsWithoutFlag(word_group, generics, found) ==
    {name \in DOMAIN generics :
        /\ Truthy(generics[name].regex)
        /\ ReMatch(generics[name].regex, Strip(word_group))}

\* Lines 193-198: the characteristics whose regex claims this fragment.
RegexClaims(word_group, generics, found) ==
    {name \in DOMAIN generics :
        /\ Truthy(generics[name].regex)
        /\ ~found[name]
        /\ ReMatch(generics[name].regex, Strip(word_group))}

\* Lines 199-200 for every claiming characteristic.
RecordClaims(positions, claims, i) ==
    [k \in DOMAIN positions \cup claims |->
        IF k \in claims THEN i ELSE positions[k]]

\* Lines 202-207: the literal record, decorated when the text is already a key.
RecordLiteral(positions, word_group, i) ==
    IF word_group \notin DOMAIN positions
    THEN DictPut(positions, word_group, i)
    ELSE DictPut(positions, word_group \o "*", i)

\* Lines 213-223.
CountPoints(generics, positions) ==
    Cardinality({c \in DOMAIN generics :
        _within_n_positions(c, positions, generics[c].position_threshold,
                            generics[c].from_end)})

\* A variant that divides without looking at total_points first.
VerdictWithoutGuard(points, total, threshold) ==
    IF total = 0 THEN "ZeroDivisionError"
    ELSE IF points * threshold[2] >= threshold[1] * total
         THEN "True" ELSE "False"

\* Lines 225-229: the conditional expression around the division.
PlatformPostVerdict(points, total, threshold) ==
    IF total # 0
    THEN IF points * threshold[2] >= threshold[1] * total
         THEN "True" ELSE "False"
    ELSE "False"

\* Lines 239-240 and 257-261: the wrappers' guards.
TwixConfigured(self) ==
    ~(~Truthy(self.twix_user_full_name) \/ ~Truthy(self.twix_user_handle))

UntruthSocialConfigured(self) ==
    ~(\/ ~Truthy(self.untruth_social_user_full_name)
      \/ ~Truthy(self.untruth_social_user_handle))

(***************************************************************************)
(* Inputs of the classifier                                                *)
(***************************************************************************)
MaxFragments == 3

SmallTexts == {"replies", "3 replies", "a", "a*", " 2 Likes "}

RECURSIVE SeqsUpTo(_, _)
SeqsUpTo(S, n) ==
    IF n = 0 THEN {<<>>}
    ELSE LET shorter == SeqsUpTo(S, n - 1)
         IN  shorter \cup {Append(s, x) : s \in shorter, x \in S}

TruthScenario ==
    <<"Truth Details", "3 replies", "Donald J. Trump", "@realDonaldTrump",
      "This is the body", "11.0k ReTruths", "50.2k Likes">>

NoDetailsScenario == SubSeq(TruthScenario, 2, Len(TruthScenario))

Padding == <<"p1", "p2", "p3", "p4", "p5", "p6">>

ScenarioLists == {TruthScenario, NoDetailsScenario,
                  Padding \o TruthScenario, TruthScenario \o Padding}

FragmentLists == SeqsUpTo(SmallTexts, MaxFragments) \cup ScenarioLists

Thresholds == {<<0, 1>>, <<2, 5>>, <<9, 10>>}

Wrappers == {"is_probably_their_untruth_social_post",
             "is_probably_their_twix_post"}

\* The paging loop's variables while another part of the program runs.
FeedIdle ==
    /\ max_pages = 0
    /\ response = <<>>
    /\ items = <<>>
    /\ post_attr = ""
    /\ cursor_in_params = FALSE
    /\ getter_kwargs = <<>>
    /\ tweets_list = <<>>
    /\ pages_seen = 0
    /\ fetches = 0
    /\ pages_processed = 0

\* The deduplicator's variables while another part of the program runs.
DedupeIdle ==
    /\ fuzz_ratio = EmptyDict
    /\ combined_tweets_list = <<>>
    /\ deduped_tweets_list = <<>>
    /\ deduped_again = <<>>
    /\ reordered_tweets_list = <<>>
    /\ deduped_reordered = <<>>

\* The assembler's and main's variables while another part runs.
AssemblyIdle ==
    /\ full_tweets_list = <<>>
    /\ villain_quotes_list = <<>>
    /\ num_tweets = 0
    /\ seen_neighbor_indices = {}
    /\ there_just_isnt_enough = 0
    /\ index_to_insert_at = 0
    /\ quotes_inserted = 0
    /\ corpus = ""
    /\ exception = ""
    /\ sentence = None
    /\ decision = ""
    /\ posted = ""
    /\ passes = 0
    /\ tweets_at_call = <<>>
    /\ quote_redraws = 0
    /\ accepted_indices = <<>>

(***************************************************************************)
(* The classifier as a state machine                                       *)
(***************************************************************************)
InitClassifier ==
    /\ pc = "call"
    /\ compiler \in Compilers
    /\ extracted_image_texts \in FragmentLists
    /\ \/ /\ entry = "is_probably_their_platform_post"
          /\ platform_generics \in {get_untruth_social_generics(compiler),
                                    get_twix_generics(compiler)}
          /\ probability_threshold \in Thresholds
       \/ /\ entry \in Wrappers
          /\ platform_generics = EmptyDict
          /\ probability_threshold = post_characteristics_probability_threshold
    /\ word_group_positions = EmptyDict
    /\ regex_characteristics_found = EmptyDict
    /\ index = 0
    /\ probability_points = 0
    /\ total_points = 0
    /\ result = "pending"
    /\ DedupeIdle
    /\ AssemblyIdle
    /\ FeedIdle

\* is_probably_their_twix_post / is_probably_their_untruth_social_post on a
\* compiler whose name or handle is not set: return False at once.
WrapperRefuses ==
    /\ pc = "call"
    /\ UNCHANGED notClassifierVars
    /\ \/ entry = "is_probably_their_twix_post" /\ ~TwixConfigured(compiler)
       \/ /\ entry = "is_probably_their_untruth_social_post"
          /\ ~UntruthSocialConfigured(compiler)
    /\ result' = "False"
    /\ pc' = "done"
    /\ UNCHANGED <<compiler, entry, extracted_image_texts, platform_generics,
                   probability_threshold, word_group_positions,
                   regex_characteristics_found, index, probability_points,
                   total_points>>

\* The wrappers pass their own catalog and no threshold (the default).
WrapperCalls ==
    /\ pc = "call"
    /\ UNCHANGED notClassifierVars
    /\ \/ /\ entry = "is_probably_their_twix_post"
          /\ TwixConfigured(compiler)
          /\ platform_generics' = get_twix_generics(compiler)
       \/ /\ entry = "is_probably_their_untruth_social_post"
          /\ UntruthSocialConfigured(compiler)
          /\ platform_generics' = get_untruth_social_generics(compiler)
    /\ probability_threshold' = post_characteristics_probability_threshold
    /\ word_group_positions' = EmptyDict
    /\ regex_characteristics_found' = InitialRegexFound(platform_generics')
    /\ index' = 0
    /\ pc' = "index"
    /\ UNCHANGED <<compiler, entry, extracted_image_texts, probability_points,
                   total_points, result>>

\* is_probably_their_platform_post called directly: lines 182-190.
DirectCall ==
    /\ pc = "call"
    /\ UNCHANGED notClassifierVars
    /\ entry = "is_probably_their_platform_post"
    /\ word_group_positions' = EmptyDict
    /\ regex_characteristics_found' = InitialRegexFound(platform_generics)
    /\ index' = 0
    /\ pc' = "index"
    /\ UNCHANGED <<compiler, entry, extracted_image_texts, platform_generics,
                   probability_threshold, probability_points, total_points,
                   result>>

\* One pass of the loop of line 191: the regex claims, then the literal record.
IndexFragment ==
    /\ pc = "index"
    /\ UNCHANGED notClassifierVars
    /\ index < Len(extracted_image_texts)
    /\ LET word_group == extracted_image_texts[index + 1]
           claims == RegexClaims(word_group, platform_generics,
                                 regex_characteristics_found)
       IN  /\ word_group_positions' =
                 RecordLiteral(RecordClaims(word_group_positions, claims, index),
                               word_group, index)
           /\ regex_characteristics_found' =
                 [name \in DOMAIN regex_characteristics_found |->
                     regex_characteristics_found[name] \/ name \in claims]
    /\ index' = index + 1
    /\ UNCHANGED <<pc, compiler, entry, extracted_image_texts, platform_generics,
                   probability_threshold, probability_points, total_points,
                   result>>

\* Lines 213-229: count the points and compare with the threshold.
Score ==
    /\ pc = "index"
    /\ UNCHANGED notClassifierVars
    /\ index = Len(extracted_image_texts)
    /\ probability_points' = CountPoints(platform_generics, word_group_positions)
    /\ total_points' = Cardinality(DOMAIN platform_generics)
    /\ result' = PlatformPostVerdict(probability_points', total_points',
                                     probability_threshold)
    /\ pc' = "done"
    /\ UNCHANGED <<compiler, entry, extracted_image_texts, platform_generics,
                   probability_threshold, word_group_positions,
                   regex_characteristics_found, index>>

NextClassifier ==
    \/ WrapperRefuses
    \/ WrapperCalls
    \/ DirectCall
    \/ IndexFragment
    \/ Score

SpecClassifier == InitClassifier /\ [][NextClassifier]_vars


(***************************************************************************)
(* Properties of the classifier                                            *)
(***************************************************************************)
TrumpUntruthCatalog == get_untruth_social_generics(TrumpTweetCompiler)

\* The edge constraint of one characteristic, read off the recorded indexes.
SatisfiesEdge(c) ==
    /\ c \in DOMAIN word_group_positions
    /\ IF platform_generics[c].from_end
       THEN Cardinality(DOMAIN word_group_positions) - word_group_positions[c]
                <= platform_generics[c].position_threshold
       ELSE word_group_positions[c] < platform_generics[c].position_threshold

SatisfiedCount == Cardinality({c \in DOMAIN platform_generics : SatisfiesEdge(c)})

\* C1: a fragment list is accepted exactly when (satisfied characteristics) /
\* (catalog size) >= threshold; the Untruth Social scenario scores 6/6 and is
\* accepted at 0.4; without "Truth Details" it scores 5/6, accepted at 0.4
\* and rejected at 0.9.
C1_AcceptsAtThreshold ==
    pc = "done" =>
        /\ (result = "True") <=>
              /\ DOMAIN platform_generics # {}
              /\ SatisfiedCount * probability_threshold[2] >=
                     probability_threshold[1] * Cardinality(DOMAIN platform_generics)
        /\ (/\ entry = "is_probably_their_platform_post"
            /\ platform_generics = TrumpUntruthCatalog
            /\ extracted_image_texts = TruthScenario) =>
               /\ probability_points = 6
               /\ total_points = 6
               /\ probability_threshold = <<2, 5>> => result = "True"
        /\ (/\ entry = "is_probably_their_platform_post"
            /\ platform_generics = TrumpUntruthCatalog
            /\ extracted_image_texts = NoDetailsScenario) =>
               /\ probability_points = 5
               /\ total_points = 6
               /\ probability_threshold = <<2, 5>> => result = "True"
               /\ probability_threshold = <<9, 10>> => result = "False"

C1_Witness ==
    /\ pc = "done"
    /\ entry = "is_probably_their_platform_post"
    /\ platform_generics = TrumpUntruthCatalog
    /\ extracted_image_texts = NoDetailsScenario
    /\ probability_threshold = <<9, 10>>
    /\ probability_points = 5
    /\ result = "False"

\* The fragments indexed so far that match characteristic c's regex.
MatchingIndexes(c) ==
    {i \in 0..(index - 1) :
        ReMatch(platform_generics[c].regex, Strip(extracted_image_texts[i + 1]))}

\* C2: claim-once.  At every point of the indexing, a regex characteristic is
\* claimed exactly when some fragment seen so far matches its regex, and the
\* index under its key is then the index of the first such fragment; later
\* matches, the same text included, leave it as it is.
C2_ClaimOnce ==
    \A c \in DOMAIN regex_characteristics_found :
        /\ regex_characteristics_found[c] <=> MatchingIndexes(c) # {}
        /\ regex_characteristics_found[c] =>
              /\ c \in DOMAIN word_group_positions
              /\ word_group_positions[c] = Min(MatchingIndexes(c))

C2_Witness ==
    /\ pc = "done"
    /\ \E c \in DOMAIN regex_characteristics_found :
          \E i, j \in MatchingIndexes(c) :
              /\ i < j
              /\ extracted_image_texts[i + 1] = extracted_image_texts[j + 1]
              /\ word_group_positions[c] = i

\* C3: an empty catalog never matches and raises nothing, whatever the
\* fragments and the threshold (0 included); a compiler whose name or handle
\* for a platform is not set never matches on that platform.
C3_EmptyCatalogNoMatch ==
    pc = "done" =>
        /\ DOMAIN platform_generics = {} => result = "False"
        /\ (/\ entry = "is_probably_their_twix_post"
            /\ \/ compiler.twix_user_full_name = None
               \/ compiler.twix_user_handle = None) => result = "False"
        /\ (/\ entry = "is_probably_their_untruth_social_post"
            /\ \/ compiler.untruth_social_user_full_name = None
               \/ compiler.untruth_social_user_handle = None) => result = "False"

C3_Witness ==
    /\ pc = "done"
    /\ entry = "is_probably_their_platform_post"
    /\ DOMAIN platform_generics = {}
    /\ probability_threshold = <<0, 1>>
    /\ Len(extracted_image_texts) > 0
    /\ index = Len(extracted_image_texts)
    /\ total_points = 0
    /\ result = "False"

\* C10: every key that is the literal text of a fragment indexed so far maps
\* to the index of that text's first occurrence.
C10_FirstOccurrenceKept ==
    \A i \in 0..(index - 1) :
        LET text == extracted_image_texts[i + 1]
        IN  /\ text \in DOMAIN word_group_positions
            /\ word_group_positions[text] =
                   Min({j \in 0..(index - 1) : extracted_image_texts[j + 1] = text})


(***************************************************************************)
(* dedupe_combined_tweets_list                                             *)
(***************************************************************************)
TWEET_DEDUPE_FUZZY_MATCH_THRESHOLD == 80

\* A variant that, on a duplicate, keeps the newer text in place of the one
\* it resembles.
DedupeStepKeepsLatest(deduped, tweet) ==
    LET hits == {i \in 1..Len(deduped) :
                    fuzz_ratio[tweet][deduped[i]] >=
                        TWEET_DEDUPE_FUZZY_MATCH_THRESHOLD}
    IN  IF hits # {} THEN [deduped EXCEPT ![Min(hits)] = tweet]
        ELSE Append(deduped, tweet)

\* A variant that compares a tweet with the last kept one only.
DedupeStepLastOnly(deduped, tweet) ==
    IF /\ deduped # <<>>
       /\ fuzz_ratio[tweet][deduped[Len(deduped)]] >=
              TWEET_DEDUPE_FUZZY_MATCH_THRESHOLD
    THEN deduped
    ELSE Append(deduped, tweet)

\* Lines 452-458: one pass of the outer loop.  The inner loop's break only
\* saves comparisons.
DedupeStep(deduped, tweet) ==
    LET is_duplicate ==
            \E i \in 1..Len(deduped) :
                fuzz_ratio[tweet][deduped[i]] >=
                    TWEET_DEDUPE_FUZZY_MATCH_THRESHOLD
    IN  IF ~is_duplicate THEN Append(deduped, tweet) ELSE deduped

RECURSIVE DedupeFrom(_, _)
DedupeFrom(deduped, remaining) ==
    IF remaining = <<>> THEN deduped
    ELSE DedupeFrom(DedupeStep(deduped, Head(remaining)), Tail(remaining))

dedupe_combined_tweets_list(tweets) == DedupeFrom(<<>>, tweets)

(***************************************************************************)
(* Inputs of the deduplicator                                              *)
(***************************************************************************)
MaxTweets == 3

Bodies == {"hello world", "hello world!", "totally different text"}

\* fuzz.ratio belongs to the fuzzywuzzy library: any table of scores stands
\* for it.  Only the comparison with the threshold is ever observed, so one
\* score on each side of it is enough.
RatioScores == {TWEET_DEDUPE_FUZZY_MATCH_THRESHOLD - 1,
                TWEET_DEDUPE_FUZZY_MATCH_THRESHOLD}

Range(seq) == {seq[i] : i \in 1..Len(seq)}

\* The arrangements of the same list elements.
Reorderings(seq) ==
    {[i \in 1..Len(seq) |-> seq[f[i]]] :
        f \in {g \in [1..Len(seq) -> 1..Len(seq)] : Range(g) = 1..Len(seq)}}

ClassifierIdle ==
    /\ compiler = TweetCompilerBase
    /\ entry = "none"
    /\ extracted_image_texts = <<>>
    /\ platform_generics = EmptyDict
    /\ probability_threshold = post_characteristics_probability_threshold
    /\ word_group_positions = EmptyDict
    /\ regex_characteristics_found = EmptyDict
    /\ index = 0
    /\ probability_points = 0
    /\ total_points = 0
    /\ result = "pending"

(***************************************************************************)
(* The deduplicator applied to a list, to its own output and to a          *)
(* reordering of the list                                                  *)
(***************************************************************************)
InitDedupe ==
    /\ pc = "dedupe"
    /\ fuzz_ratio \in [Bodies -> [Bodies -> RatioScores]]
    /\ combined_tweets_list \in SeqsUpTo(Bodies, MaxTweets)
    /\ deduped_tweets_list = <<>>
    /\ deduped_again = <<>>
    /\ reordered_tweets_list = <<>>
    /\ deduped_reordered = <<>>
    /\ ClassifierIdle
    /\ AssemblyIdle
    /\ FeedIdle

Dedupe ==
    /\ pc = "dedupe"
    /\ deduped_tweets_list' = dedupe_combined_tweets_list(combined_tweets_list)
    /\ pc' = "deduped"
    /\ UNCHANGED <<fuzz_ratio, combined_tweets_list, deduped_again,
                   reordered_tweets_list, deduped_reordered>>
    /\ UNCHANGED notDedupeVars

DedupeAgain ==
    /\ pc = "deduped"
    /\ deduped_again' = dedupe_combined_tweets_list(deduped_tweets_list)
    /\ pc' = "deduped twice"
    /\ UNCHANGED <<fuzz_ratio, combined_tweets_list, deduped_tweets_list,
                   reordered_tweets_list, deduped_reordered>>
    /\ UNCHANGED notDedupeVars

DedupeReordered ==
    /\ pc = "deduped"
    /\ reordered_tweets_list' \in Reorderings(combined_tweets_list)
    /\ deduped_reordered' = dedupe_combined_tweets_list(reordered_tweets_list')
    /\ pc' = "deduped reordered"
    /\ UNCHANGED <<fuzz_ratio, combined_tweets_list, deduped_tweets_list,
                   deduped_again>>
    /\ UNCHANGED notDedupeVars

NextDedupe ==
    \/ Dedupe
    \/ DedupeAgain
    \/ DedupeReordered

SpecDedupe == InitDedupe /\ [][NextDedupe]_vars

(***************************************************************************)
(* Properties of the deduplicator                                          *)
(***************************************************************************)
\* C4: deduplication is idempotent, whatever the similarity function:
\* applied to its own output it returns that output, elements and order.
C4_DedupeIdempotent ==
    pc = "deduped twice" => deduped_again = deduped_tweets_list

C4_Witness ==
    /\ pc = "deduped twice"
    /\ Len(deduped_tweets_list) >= 2
    /\ Len(deduped_tweets_list) < Len(combined_tweets_list)
    /\ \E a, b \in Range(deduped_tweets_list) :
          fuzz_ratio[a][b] # fuzz_ratio[b][a]
    /\ deduped_again = deduped_tweets_list

Similar(a, b) == fuzz_ratio[a][b] >= TWEET_DEDUPE_FUZZY_MATCH_THRESHOLD

\* "Similar at the threshold" is an equivalence on the bodies of the list.
SimilarityIsEquivalence(tweets) ==
    /\ \A a \in Range(tweets) : Similar(a, a)
    /\ \A a, b \in Range(tweets) : Similar(a, b) => Similar(b, a)
    /\ \A a, b, c \in Range(tweets) :
          Similar(a, b) /\ Similar(b, c) => Similar(a, c)

\* The tables a string-similarity ratio can produce: a text resembles itself,
\* and two texts resemble each other as much in either order.
RatioIsSymmetricReflexive ==
    /\ \A a \in Bodies : Similar(a, a)
    /\ \A a, b \in Bodies : fuzz_ratio[a][b] = fuzz_ratio[b][a]

\* C5 as stated: every ordering of the same bodies keeps the same number
\* (read for symmetric, reflexive similarity, as an edit-distance ratio is).
C5_SizeSameForEveryOrder ==
    (pc = "deduped reordered" /\ RatioIsSymmetricReflexive) =>
        Len(deduped_reordered) = Len(deduped_tweets_list)

\* C5 amended: when similarity at the threshold is an equivalence relation on
\* the bodies of the input, every ordering keeps the same number of bodies
\* (one per class); which body of a class survives may depend on the order.
C5_SizeSameWhenEquivalence ==
    (pc = "deduped reordered" /\ SimilarityIsEquivalence(combined_tweets_list)) =>
        Len(deduped_reordered) = Len(deduped_tweets_list)

C5_Witness ==
    /\ pc = "deduped reordered"
    /\ SimilarityIsEquivalence(combined_tweets_list)
    /\ reordered_tweets_list # combined_tweets_list
    /\ Len(deduped_tweets_list) < Len(combined_tweets_list)
    /\ deduped_reordered # deduped_tweets_list
    /\ Len(deduped_reordered) = Len(deduped_tweets_list)


(***************************************************************************)
(* create_combined_corpus                                                  *)
(***************************************************************************)
QUOTE_INSERTION_WINDOW_SIZE == 5

\* The source (line 471) sets this budget to 1000.  The model runs it with a
\* small value: every redraw is a step, and nothing below depends on the
\* number itself.
MY_DUMB_INFINITE_LOOP_PREVENTER == 2

\* random.randrange(n): any of 0 .. n-1; with n = 0 it raises ValueError.
RandRange(n) == 0..(n - 1)

\* A variant that stores the quote over the element at the index.
ListOverwrite(list, i, x) == [list EXCEPT ![i + 1] = x]

\* list.insert(i, x) for 0 <= i <= len(list).
ListInsert(list, i, x) ==
    SubSeq(list, 1, i) \o <<x>> \o SubSeq(list, i + 1, Len(list))

\* A variant whose budget test lets one redraw too many through.
WhileConditionOffByOne(i, seen, redraws) ==
    i \in seen /\ redraws <= MY_DUMB_INFINITE_LOOP_PREVENTER

\* Lines 486-489: the condition of the redraw loop.
WhileCondition(i, seen, redraws) ==
    i \in seen /\ redraws < MY_DUMB_INFINITE_LOOP_PREVENTER

\* A variant that marks the closed range, the upper end included.
NeighborIndicesClosed(i) ==
    (i - QUOTE_INSERTION_WINDOW_SIZE)..(i + QUOTE_INSERTION_WINDOW_SIZE)

\* Lines 495-506: the indexes an accepted insertion puts off-limits.
NeighborIndices(i) ==
    ((i - QUOTE_INSERTION_WINDOW_SIZE)..(i - 1))
        \cup (i..(i + QUOTE_INSERTION_WINDOW_SIZE - 1))

\* " ".join(list)
RECURSIVE Join(_)
Join(list) ==
    IF list = <<>> THEN ""
    ELSE IF Len(list) = 1 THEN list[1]
    ELSE list[1] \o " " \o Join(Tail(list))

\* len(text.split()): the maximal runs of non-whitespace.
WordCount(text) ==
    Cardinality({i \in 1..Len(text) :
        /\ ~IsSpace(CharAt(text, i))
        /\ i = 1 \/ IsSpace(CharAt(text, i - 1))})

(***************************************************************************)
(* Inputs of the assembler                                                 *)
(***************************************************************************)
MaxBodies == 2

MaxQuotes == 3

\* A cleaned post body may be empty or hold runs of spaces (lines 329-330).
BodyTexts == {"covfefe", "sad  day", ""}

QuoteTexts == {"Off with their heads!", "Mother knows best."}

\* Long enough for an index outside the window of an earlier insertion.
LongTweets == <<"t1", "t2", "t3", "t4", "t5", "t6">>

(***************************************************************************)
(* The assembler as a state machine                                        *)
(***************************************************************************)
InitCorpus ==
    /\ pc = "call create_combined_corpus"
    /\ full_tweets_list \in SeqsUpTo(BodyTexts, MaxBodies) \cup {LongTweets}
    /\ villain_quotes_list \in SeqsUpTo(QuoteTexts, MaxQuotes)
    /\ num_tweets = 0
    /\ seen_neighbor_indices = {}
    /\ there_just_isnt_enough = 0
    /\ index_to_insert_at = 0
    /\ quotes_inserted = 0
    /\ corpus = ""
    /\ exception = ""
    /\ sentence = None
    /\ decision = ""
    /\ posted = ""
    /\ passes = 0
    /\ tweets_at_call = <<>>
    /\ quote_redraws = 0
    /\ accepted_indices = <<>>
    /\ ClassifierIdle
    /\ DedupeIdle
    /\ FeedIdle

\* Lines 481-483.
EnterCorpus ==
    /\ pc = "call create_combined_corpus"
    /\ num_tweets' = Len(full_tweets_list)
    /\ seen_neighbor_indices' = {}
    /\ there_just_isnt_enough' = 0
    /\ quotes_inserted' = 0
    /\ tweets_at_call' = full_tweets_list
    /\ quote_redraws' = 0
    /\ accepted_indices' = <<>>
    /\ pc' = "for quote"
    /\ UNCHANGED <<full_tweets_list, villain_quotes_list, index_to_insert_at,
                   corpus, exception>>
    /\ UNCHANGED notCorpusVars

\* Line 485 with an empty body list: random.randrange(0) raises ValueError,
\* which nothing catches.
DrawFromEmptyRange ==
    /\ pc = "for quote"
    /\ quotes_inserted < Len(villain_quotes_list)
    /\ num_tweets = 0
    /\ exception' = "ValueError"
    /\ pc' = "raised"
    /\ UNCHANGED <<full_tweets_list, villain_quotes_list, num_tweets,
                   seen_neighbor_indices, there_just_isnt_enough,
                   index_to_insert_at, quotes_inserted, corpus,
                   tweets_at_call, quote_redraws, accepted_indices>>
    /\ UNCHANGED notCorpusVars

\* Line 485: the first draw for the next quote.
DrawIndex ==
    /\ pc = "for quote"
    /\ quotes_inserted < Len(villain_quotes_list)
    /\ num_tweets # 0
    /\ index_to_insert_at' \in RandRange(num_tweets)
    /\ quote_redraws' = 0
    /\ pc' = "while"
    /\ UNCHANGED <<full_tweets_list, villain_quotes_list, num_tweets,
                   seen_neighbor_indices, there_just_isnt_enough,
                   quotes_inserted, corpus, exception, tweets_at_call,
                   accepted_indices>>
    /\ UNCHANGED notCorpusVars

\* Lines 486-491: the loop condition holds; count the redraw and draw again.
Redraw ==
    /\ pc = "while"
    /\ WhileCondition(index_to_insert_at, seen_neighbor_indices,
                      there_just_isnt_enough)
    /\ there_just_isnt_enough' = there_just_isnt_enough + 1
    /\ index_to_insert_at' \in RandRange(num_tweets)
    /\ quote_redraws' = quote_redraws + 1
    /\ UNCHANGED <<pc, full_tweets_list, villain_quotes_list, num_tweets,
                   seen_neighbor_indices, quotes_inserted, corpus, exception,
                   tweets_at_call, accepted_indices>>
    /\ UNCHANGED notCorpusVars

\* Lines 495-507: the loop condition fails; mark the window and insert.
InsertQuote ==
    /\ pc = "while"
    /\ ~WhileCondition(index_to_insert_at, seen_neighbor_indices,
                       there_just_isnt_enough)
    /\ seen_neighbor_indices' =
           seen_neighbor_indices \cup NeighborIndices(index_to_insert_at)
    /\ full_tweets_list' =
           ListInsert(full_tweets_list, index_to_insert_at,
                      villain_quotes_list[quotes_inserted + 1])
    /\ quotes_inserted' = quotes_inserted + 1
    /\ accepted_indices' = Append(accepted_indices, index_to_insert_at)
    /\ pc' = "for quote"
    /\ UNCHANGED <<villain_quotes_list, num_tweets, there_just_isnt_enough,
                   index_to_insert_at, corpus, exception, tweets_at_call,
                   quote_redraws>>
    /\ UNCHANGED notCorpusVars

\* Line 509.
ReturnCorpus ==
    /\ pc = "for quote"
    /\ quotes_inserted = Len(villain_quotes_list)
    /\ corpus' = Join(full_tweets_list)
    /\ pc' = "returned"
    /\ UNCHANGED <<full_tweets_list, villain_quotes_list, num_tweets,
                   seen_neighbor_indices, there_just_isnt_enough,
                   index_to_insert_at, quotes_inserted, exception,
                   tweets_at_call, quote_redraws, accepted_indices>>
    /\ UNCHANGED notCorpusVars

NextCorpus ==
    \/ EnterCorpus
    \/ DrawFromEmptyRange
    \/ DrawIndex
    \/ Redraw
    \/ InsertQuote
    \/ ReturnCorpus

SpecCorpus == InitCorpus /\ [][NextCorpus]_vars

\* The call runs to its end: the interpreter keeps executing it.
SpecCorpusFair == SpecCorpus /\ WF_vars(NextCorpus)

(***************************************************************************)
(* main: dedupe, then assemble / generate / ask until the user agrees,     *)
(* then post                                                               *)
(***************************************************************************)
MaxMainTweets == 2

\* Passes of the while loop the model follows.
MaxPasses == 2

\* What get_all_tweets may have collected.
MainBodies == {"covfefe", "sad  day"}

\* Two of the quotes of VILLAIN_QUOTES stand for the collection.
AllQuotes == {"Off with their heads!", "Mother knows best."}

\* fuzz.ratio in main: texts resemble themselves only, or all resemble.
MainRatios ==
    {[a \in MainBodies |-> [b \in MainBodies |->
        IF a = b THEN TWEET_DEDUPE_FUZZY_MATCH_THRESHOLD
        ELSE TWEET_DEDUPE_FUZZY_MATCH_THRESHOLD - 1]],
     [a \in MainBodies |-> [b \in MainBodies |->
        TWEET_DEDUPE_FUZZY_MATCH_THRESHOLD]]}

\* random.sample(population, k): k distinct members in any order.
Samples(population, k) ==
    {q \in [1..k -> population] : \A i, j \in 1..k : q[i] = q[j] => i = j}

\* Lines 463-466.
get_villain_quotes_list(max_count) ==
    Samples(AllQuotes,
            IF Cardinality(AllQuotes) <= max_count
            THEN Cardinality(AllQuotes) ELSE max_count)

\* What markovifier.make_sentence may return: None, or a sentence when the
\* corpus has words to build one from.
GeneratedSentence == "a generated sentence"

MakeSentenceResults(text) ==
    IF WordCount(text) = 0 THEN {None} ELSE {None, GeneratedSentence}

\* str.lower for the answers the model types.
Lower(answer) ==
    CASE answer = "Y" -> "y"
      [] answer = "N" -> "n"
      [] OTHER -> answer

Answers == {"Y", "yes", "N"}

\* f"{value}" for an Optional[str].
Format(value) == IF value = None THEN "None" ELSE value

\* Lines 512-516 with the one class of TWEET_COMPILER_CLASSES.
format_tweet_compiler_nicknames == TrumpTweetCompiler.nickname

InitMain ==
    /\ pc = "main dedupe"
    /\ full_tweets_list \in SeqsUpTo(MainBodies, MaxMainTweets)
    /\ fuzz_ratio \in MainRatios
    /\ combined_tweets_list = <<>>
    /\ deduped_tweets_list = <<>>
    /\ deduped_again = <<>>
    /\ reordered_tweets_list = <<>>
    /\ deduped_reordered = <<>>
    /\ villain_quotes_list = <<>>
    /\ num_tweets = 0
    /\ seen_neighbor_indices = {}
    /\ there_just_isnt_enough = 0
    /\ index_to_insert_at = 0
    /\ quotes_inserted = 0
    /\ corpus = ""
    /\ exception = ""
    /\ sentence = None
    /\ decision = ""
    /\ posted = ""
    /\ passes = 0
    /\ tweets_at_call = <<>>
    /\ quote_redraws = 0
    /\ accepted_indices = <<>>
    /\ ClassifierIdle
    /\ FeedIdle

\* Line 33.
MainDedupe ==
    /\ pc = "main dedupe"
    /\ full_tweets_list' = dedupe_combined_tweets_list(full_tweets_list)
    /\ pc' = "while not satisfied"
    /\ UNCHANGED <<villain_quotes_list, num_tweets, seen_neighbor_indices,
                   there_just_isnt_enough, index_to_insert_at, quotes_inserted,
                   corpus, exception, tweets_at_call, quote_redraws,
                   accepted_indices>>
    /\ UNCHANGED <<classifierVars, dedupeVars, mainVars, feedVars>>

\* Lines 36-39: a new pass; draw the sample and call the assembler with
\* main's own list.
SampleQuotes ==
    /\ pc = "while not satisfied"
    /\ passes < MaxPasses
    /\ villain_quotes_list' \in get_villain_quotes_list(Len(full_tweets_list))
    /\ passes' = passes + 1
    /\ pc' = "call create_combined_corpus"
    /\ UNCHANGED <<full_tweets_list, num_tweets, seen_neighbor_indices,
                   there_just_isnt_enough, index_to_insert_at, quotes_inserted,
                   corpus, exception, tweets_at_call, quote_redraws,
                   accepted_indices>>
    /\ UNCHANGED <<sentence, decision, posted>>
    /\ UNCHANGED <<classifierVars, dedupeVars, feedVars>>

\* Lines 40-42.
MakeSentence ==
    /\ pc = "returned"
    /\ sentence' \in MakeSentenceResults(corpus)
    /\ pc' = "input"
    /\ UNCHANGED <<decision, posted, passes>>
    /\ UNCHANGED <<classifierVars, dedupeVars, corpusVars, feedVars>>

\* Lines 43-47: the user sees the sentence, whatever it is, and answers.
Decide ==
    /\ pc = "input"
    /\ decision' \in Answers
    /\ pc' = IF Lower(decision') \in {"y", "yes"}
             THEN "send_post" ELSE "while not satisfied"
    /\ UNCHANGED <<sentence, posted, passes>>
    /\ UNCHANGED <<classifierVars, dedupeVars, corpusVars, feedVars>>

\* Line 49.
SendPost ==
    /\ pc = "send_post"
    /\ posted' = format_tweet_compiler_nicknames \o " says: " \o Format(sentence)
    /\ pc' = "done"
    /\ UNCHANGED <<sentence, decision, passes>>
    /\ UNCHANGED <<classifierVars, dedupeVars, corpusVars, feedVars>>

NextMain ==
    \/ MainDedupe
    \/ SampleQuotes
    \/ EnterCorpus
    \/ DrawIndex
    \/ Redraw
    \/ InsertQuote
    \/ ReturnCorpus
    \/ MakeSentence
    \/ Decide
    \/ SendPost

SpecMain == InitMain /\ [][NextMain]_vars

(***************************************************************************)
(* Properties of the assembler                                             *)
(***************************************************************************)
\* The elements of list at the positions in S, in list order.
SubsequenceAt(list, S) ==
    LET F[i \in 0..Len(list)] ==
            IF i = 0 THEN <<>>
            ELSE IF i \in S THEN Append(F[i - 1], list[i]) ELSE F[i - 1]
    IN  F[Len(list)]

Occurrences(list, x) == Cardinality({i \in 1..Len(list) : list[i] = x})

SameElements(a, b) ==
    \A x \in Range(a) \cup Range(b) : Occurrences(a, x) = Occurrences(b, x)

RECURSIVE TotalWords(_)
TotalWords(list) ==
    IF list = <<>> THEN 0 ELSE WordCount(Head(list)) + TotalWords(Tail(list))

\* C6: with a non-empty body list, the final list holds every original body
\* and every quote exactly once, the bodies in their original order, and the
\* corpus has as many words as the bodies and the quotes together.
C6_NoContentLost ==
    (pc = "returned" /\ tweets_at_call # <<>>) =>
        /\ \E S \in SUBSET (1..Len(full_tweets_list)) :
              /\ SubsequenceAt(full_tweets_list, S) = tweets_at_call
              /\ SameElements(
                     SubsequenceAt(full_tweets_list,
                                   (1..Len(full_tweets_list)) \ S),
                     villain_quotes_list)
        /\ WordCount(corpus) =
               TotalWords(tweets_at_call) + TotalWords(villain_quotes_list)

C6_Witness ==
    /\ pc = "returned"
    /\ Len(tweets_at_call) >= 2
    /\ "" \in Range(tweets_at_call)
    /\ Len(villain_quotes_list) >= 2
    /\ full_tweets_list[1] \notin QuoteTexts
    /\ full_tweets_list[2] \in QuoteTexts
    /\ WordCount(corpus) > TotalWords(tweets_at_call)

\* The step that accepts the drawn index and inserts the quote.
AcceptsIndex == pc = "while" /\ pc' = "for quote"

\* C9 as stated: a colliding index is accepted only after the whole budget of
\* redraws has been spent on that very quote.
C9_PerQuoteBudget ==
    [][(AcceptsIndex /\ index_to_insert_at \in seen_neighbor_indices)
          => quote_redraws >= MY_DUMB_INFINITE_LOOP_PREVENTER]_vars

\* C9 amended: the budget is one per call, shared by all its quotes.  A
\* colliding draw is redrawn as long as fewer redraws than the budget have
\* been made in the call, and accepted once that many have been made (also
\* for a later quote that was never redrawn); a call makes at most that many
\* redraws, and it always ends.
C9_SharedBudget ==
    /\ [](there_just_isnt_enough <= MY_DUMB_INFINITE_LOOP_PREVENTER)
    /\ [][(pc = "while" /\ index_to_insert_at \in seen_neighbor_indices) =>
             IF there_just_isnt_enough < MY_DUMB_INFINITE_LOOP_PREVENTER
             THEN /\ pc' = "while"
                  /\ there_just_isnt_enough' = there_just_isnt_enough + 1
             ELSE AcceptsIndex]_vars
    /\ <>(pc \in {"returned", "raised"})

\* With at most QUOTE_INSERTION_WINDOW_SIZE bodies every draw after the first
\* insertion collides: the second quote used the budget up, the third was
\* accepted on a colliding first draw.
C9_Witness ==
    /\ pc = "returned"
    /\ num_tweets \in 1..QUOTE_INSERTION_WINDOW_SIZE
    /\ quotes_inserted >= 2
    /\ there_just_isnt_enough = MY_DUMB_INFINITE_LOOP_PREVENTER

(***************************************************************************)
(* Properties of the assembler's error handling and of main                *)
(***************************************************************************)
\* C7: when the body list is empty at the call, the assembler ends by
\* signalling, never by returning a corpus.
C7_EmptyBodiesSignalled ==
    (tweets_at_call = <<>> /\ pc \in {"returned", "raised"}) =>
        (pc = "raised" /\ exception # "")

\* C8: a None from the generator leads to another pass; what is posted is a
\* sentence the generator produced, never None (read for runs that collected
\* at least one post body).
C8_NeverPostsNone ==
    (pc = "done" /\ tweets_at_call # <<>>) => sentence # None

(***************************************************************************)
(* TweetCompiler._get_tweets_list_from_api_call                            *)
(* A post is the sequence of what get_tweet_text_if_confident returns for  *)
(* its images; a post without an embed or without images is <<>>.          *)
(***************************************************************************)
\* get_tweet_text_if_confident returned None for the image.
NoTweetText == "<None>"

\* Line 355, a variant that lets the loop run once more.
WhilePagesConditionOneMore(seen, limit) == seen <= limit + 1

\* Line 355: the condition of the paging loop.
WhilePagesCondition(seen, limit) == seen <= limit

\* Lines 357-362 for one post: the texts appended for its images.
PostTexts(post) == SelectSeq(post, LAMBDA text : text # NoTweetText)

\* Lines 356-362: the texts appended in one run over items.
RECURSIVE PageTexts(_)
PageTexts(posts) ==
    IF posts = <<>> THEN <<>>
    ELSE PostTexts(Head(posts)) \o PageTexts(Tail(posts))

\* Lines 367-370: where the cursor of the next fetch goes.
WithCursor(kwargs, in_params, next_page) ==
    IF in_params THEN [kwargs EXCEPT !.params_cursor = next_page]
    ELSE [kwargs EXCEPT !.cursor = next_page]

(***************************************************************************)
(* Inputs of the paging loop                                               *)
(***************************************************************************)
\* The largest self.max_pages the model runs (the class attribute is 100).
MaxPageLimit == 2

\* The most posts on a page.
MaxItems == 2

Posts == {<<>>, <<NoTweetText>>, <<"covfefe">>}

\* response.cursor: absent/empty at the end of the feed.
Cursors == {"", "cursor"}

\* What getter_func may return: a feed response, a posts response, or
\* something with neither attribute.
Responses ==
    [kind : {"feed", "posts", "other"},
     posts : SeqsUpTo(Posts, MaxItems),
     cursor : Cursors]

(***************************************************************************)
(* The paging loop as a state machine                                      *)
(***************************************************************************)
InitFeed ==
    /\ pc = "call _get_tweets_list_from_api_call"
    /\ max_pages \in 1..MaxPageLimit
    /\ response = <<>>
    /\ items = <<>>
    /\ post_attr = ""
    /\ cursor_in_params = FALSE
    /\ getter_kwargs = [cursor |-> "", params_cursor |-> ""]
    /\ tweets_list = <<>>
    /\ pages_seen = 0
    /\ fetches = 0
    /\ pages_processed = 0
    /\ ClassifierIdle
    /\ DedupeIdle
    /\ AssemblyIdle

\* Lines 336-350, 353-354: the first fetch returns a feed or a posts response.
FirstFetch ==
    /\ pc = "call _get_tweets_list_from_api_call"
    /\ \E r \in Responses :
          /\ r.kind # "other"
          /\ response' = r
          /\ items' = r.posts
          /\ post_attr' = IF r.kind = "feed" THEN "post" ELSE ""
          /\ cursor_in_params' = (r.kind = "posts")
    /\ fetches' = fetches + 1
    /\ tweets_list' = <<>>
    /\ pages_seen' = 0
    /\ pc' = "while pages_seen"
    /\ UNCHANGED <<max_pages, getter_kwargs, pages_processed>>
    /\ UNCHANGED <<classifierVars, dedupeVars, corpusVars, mainVars>>

\* Lines 336-338, 351-352: the first fetch returns neither; ValueError.
UnknownResponse ==
    /\ pc = "call _get_tweets_list_from_api_call"
    /\ \E r \in Responses :
          /\ r.kind = "other"
          /\ response' = r
    /\ fetches' = fetches + 1
    /\ pc' = "raised"
    /\ UNCHANGED <<max_pages, items, post_attr, cursor_in_params,
                   getter_kwargs, tweets_list, pages_seen, pages_processed>>
    /\ UNCHANGED <<classifierVars, dedupeVars, corpusVars, mainVars>>

\* Lines 355-364: the loop condition holds; run over items (the local bound
\* before the loop, which no later line rebinds) and count the page.
ProcessPage ==
    /\ pc = "while pages_seen"
    /\ WhilePagesCondition(pages_seen, max_pages)
    /\ tweets_list' = tweets_list \o PageTexts(items)
    /\ pages_seen' = pages_seen + 1
    /\ pages_processed' = pages_processed + 1
    /\ pc' = "next_page"
    /\ UNCHANGED <<max_pages, response, items, post_attr, cursor_in_params,
                   getter_kwargs, fetches>>
    /\ UNCHANGED <<classifierVars, dedupeVars, corpusVars, mainVars>>

\* Lines 365-371: a truthy cursor; pass it on and fetch again.
FetchNext ==
    /\ pc = "next_page"
    /\ response.cursor # ""
    /\ getter_kwargs' =
           WithCursor(getter_kwargs, cursor_in_params, response.cursor)
    /\ \E r \in Responses :
          /\ r.kind = response.kind
          /\ response' = r
    /\ fetches' = fetches + 1
    /\ pc' = "while pages_seen"
    /\ UNCHANGED <<max_pages, items, post_attr, cursor_in_params, tweets_list,
                   pages_seen, pages_processed>>
    /\ UNCHANGED <<classifierVars, dedupeVars, corpusVars, mainVars>>

\* Lines 372-375: no cursor; break and return.
BreakAndReturn ==
    /\ pc = "next_page"
    /\ response.cursor = ""
    /\ pc' = "returned"
    /\ UNCHANGED feedVars
    /\ UNCHANGED <<classifierVars, dedupeVars, corpusVars, mainVars>>

\* Lines 355, 375: the loop condition fails; return.
LeaveLoopAndReturn ==
    /\ pc = "while pages_seen"
    /\ ~WhilePagesCondition(pages_seen, max_pages)
    /\ pc' = "returned"
    /\ UNCHANGED feedVars
    /\ UNCHANGED <<classifierVars, dedupeVars, corpusVars, mainVars>>

NextFeed ==
    \/ FirstFetch
    \/ UnknownResponse
    \/ ProcessPage
    \/ FetchNext
    \/ BreakAndReturn
    \/ LeaveLoopAndReturn

SpecFeed == InitFeed /\ [][NextFeed]_vars

\* The call runs to its end: getter_func returns and the interpreter keeps
\* executing.
SpecFeedFair == SpecFeed /\ WF_vars(NextFeed)

(***************************************************************************)
(* Properties of the spacing of the inserted quotes                        *)
(***************************************************************************)
\* Where the quotes sit in the list (1-based), for inputs whose bodies are
\* no quotes.
QuotePositions ==
    {p \in 1..Len(full_tweets_list) : full_tweets_list[p] \in QuoteTexts}

Distance(a, b) == IF a >= b THEN a - b ELSE b - a

\* C11 as stated: when the call returns with redraws left in its budget, any
\* two inserted quotes are more than QUOTE_INSERTION_WINDOW_SIZE positions
\* apart in the final list.
C11_MoreThanWindowApart ==
    (pc = "returned"
        /\ there_just_isnt_enough < MY_DUMB_INFINITE_LOOP_PREVENTER) =>
        \A p, q \in QuotePositions :
            p # q => Distance(p, q) > QUOTE_INSERTION_WINDOW_SIZE

\* C11 amended: the marked set is the union of the half-open ranges
\* [a - window, a + window) of the indexes a accepted so far in the call, so
\* a + window itself stays free; an index accepted while redraws are left
\* lies outside that range of every index accepted before it.  This speaks
\* of the indexes as drawn, not of final positions.
C11_HalfOpenWindow ==
    /\ [](seen_neighbor_indices =
            UNION {(a - QUOTE_INSERTION_WINDOW_SIZE)
                       ..(a + QUOTE_INSERTION_WINDOW_SIZE - 1) :
                   a \in Range(accepted_indices)})
    /\ [][(AcceptsIndex
             /\ there_just_isnt_enough < MY_DUMB_INFINITE_LOOP_PREVENTER) =>
            \A a \in Range(accepted_indices) :
                index_to_insert_at \notin
                    (a - QUOTE_INSERTION_WINDOW_SIZE)
                        ..(a + QUOTE_INSERTION_WINDOW_SIZE - 1)]_vars

\* More bodies than the window is wide, the first quote accepted at 0 and
\* the second at 5 with no redraw: the two quotes end up exactly the window
\* apart.
C11_Witness ==
    /\ pc = "returned"
    /\ there_just_isnt_enough = 0
    /\ accepted_indices = <<0, QUOTE_INSERTION_WINDOW_SIZE>>
    /\ QuotePositions = {1, 1 + QUOTE_INSERTION_WINDOW_SIZE}

(***************************************************************************)
(* Properties of main's passes                                             *)
(***************************************************************************)
\* How many elements of list are members of S.
CountIn(list, S) == Cardinality({i \in 1..Len(list) : list[i] \in S})

\* C12: every pass starts from the deduplicated bodies alone.  When the
\* assembler is called the list holds no quote of an earlier pass and the
\* sample is no larger than the number of bodies; when it returns, the quotes
\* in the list are those of this pass's sample and no more.
C12_EveryPassStartsFromBodies ==
    /\ pc = "call create_combined_corpus" =>
          /\ CountIn(full_tweets_list, AllQuotes) = 0
          /\ Len(villain_quotes_list) <= CountIn(full_tweets_list, MainBodies)
    /\ pc = "returned" =>
          CountIn(full_tweets_list, AllQuotes) = Len(villain_quotes_list)

(***************************************************************************)
(* Properties of the paging loop                                           *)
(***************************************************************************)
\* C13 as stated: a call that returns has run over at most max_pages pages
\* and made at most max_pages fetches.
C13_AtMostMaxPages ==
    pc = "returned" =>
        /\ pages_processed <= max_pages
        /\ fetches <= max_pages

\* C13 amended: whatever the feed answers, a call runs the page loop at most
\* max_pages + 1 times and makes at most max_pages + 2 fetches, the last of
\* which it never looks at, and then it ends.
C13_AtMostMaxPagesPlusOne ==
    /\ [](/\ pages_processed <= max_pages + 1
          /\ fetches <= max_pages + 2
          /\ pages_seen = pages_processed)
    /\ <>(pc \in {"returned", "raised"})

\* A feed that still offers a cursor when the call gives up: one page and two
\* fetches more than max_pages.
C13_Witness ==
    /\ pc = "returned"
    /\ response.cursor # ""
    /\ pages_processed = max_pages + 1
    /\ fetches = max_pages + 2

=============================================================================
